---- MODULE Spec2Model ----
(***************************************************************************)
(* Model of app/screens/entry/entry.js: the Entry component that waits for *)
(* the persisted credentials and the store's hydration, runs the           *)
(* post-hydration sequence, issues the platform launch decision and        *)
(* renders Loading, SelectServer (login) or Channel.                       *)
(*                                                                         *)
(* JavaScript is run-to-completion: every action below is one synchronous  *)
(* run of a lifecycle method, a callback or an async continuation.         *)
(* The collaborators (store, app, PushNotifications, EventEmitter,         *)
(* AppState, Platform) are reduced to the fields and calls the component   *)
(* uses; the calls it makes on them are appended to log in call order.     *)
(***************************************************************************)
EXTENDS Integers, Sequences, FiniteSets

\* ---------------------------------------------------------------- bounds
\* Number of calls of props.initializeModules that are counted.
MaxInitializeModulesCalls == 1
\* Number of store dispatches (each notifies every store subscriber).
MaxStoreChanges == 2
\* Number of direct calls of a method of the instance (SpecResolver,
\* SpecInstance).
MaxResolverCalls == 2

\* ---------------------------------------------------------------- values
\* JavaScript null / undefined for a notification record.
Null == [data |-> "null", text |-> "", badge |-> 0, completed |-> FALSE]

\* Notification records {data, text, badge, completed}.
Records ==
    [data : {"D1", "D2"}, text : {"hi"}, badge : {3}, completed : BOOLEAN]

\* The records the notification layer may hold at cold start, and the
\* payloads app may have cached: different notifications.
ColdStartRecords == {r \in Records : r.data = "D1"}
CachedRecords == {r \in Records : r.data = "D2"}

\* The props and app fields steps 1 to 3 read: props.enableTimezone, whether
\* app.deviceToken is set, whether app.toolbarBackground equals
\* props.theme.sidebarHeaderBg. The three are independent.
PropsCases ==
    [enableTimezone : BOOLEAN, hasDeviceToken : BOOLEAN, sameToolbar : BOOLEAN]

\* AppState.currentState
AppStates == {"active", "background", "inactive"}

\* Platform.OS
Platforms == {"android", "ios"}

\* ViewTypes.LAUNCH_LOGIN, ViewTypes.LAUNCH_CHANNEL
LAUNCH_LOGIN == "LAUNCH_LOGIN"
LAUNCH_CHANNEL == "LAUNCH_CHANNEL"
LaunchEvents == {LAUNCH_LOGIN, LAUNCH_CHANNEL}

VARIABLES
    lifecycle,              \* "constructed" | "mounted" | "unmounted"
    state,                  \* this.state: [launchLogin, launchChannel]
    unsubscribeFromStore,   \* this.unsubscribeFromStore: TRUE iff non-null
    listeners,              \* EventEmitter: event -> number of registrations of this component's handler
    hydrationComplete,      \* store.getState().views.root.hydrationComplete
    storeSubscriptions,     \* store: number of subscriptions of this component currently installed
    credentials,            \* promise of app.loadAppCredentials()
    hydration,              \* promise of this.waitForHydration()
    pc,                     \* position of the async launchWhenReady
    platform,               \* Platform.OS
    currentState,           \* AppState.currentState
    notification,           \* record held by PushNotifications (getNotification)
    replyNotificationData,  \* app.replyNotificationData
    shouldRelaunchWhenActive, \* set by app.setShouldRelaunchWhenActive
    initializeModulesCalls, \* number of calls of props.initializeModules
    firstLaunch,            \* history: the first launch event a handler of the component received ("none" before)
    storeChanges,           \* number of store dispatches so far
    resolverCalls,          \* number of direct method calls (SpecResolver, SpecInstance)
    lateEmits,              \* history: a launch event was emitted after the component was unmounted
    log                     \* chronological calls: methods of the component and calls on collaborators

vars == <<lifecycle, state, unsubscribeFromStore, listeners, hydrationComplete,
          storeSubscriptions, credentials, hydration, pc, platform, currentState,
          notification, replyNotificationData, shouldRelaunchWhenActive,
          initializeModulesCalls, firstLaunch, storeChanges, resolverCalls,
          lateEmits, log>>

\* A log entry: the callee, and the arguments that matter (a record, or Null).
Call(op, arg) == [op |-> op, arg |-> arg]

\* The subsequence of log whose callee is in ops.
RECURSIVE Filter(_, _)
Filter(s, ops) ==
    IF s = <<>> THEN <<>>
    ELSE IF Head(s).op \in ops
         THEN <<Head(s)>> \o Filter(Tail(s), ops)
         ELSE Filter(Tail(s), ops)

\* The callee names of a log.
Ops(s) == [i \in 1..Len(s) |-> s[i].op]

\* Number of calls of op in log.
Count(s, op) == Len(Filter(s, {op}))


\* ---------------------------------------------------------------- pure parts
\* Promise.all([a, b]): rejected as soon as one rejects, resolved once both are.
PromiseAllAny(a, b) ==
    IF a = "rejected" \/ b = "rejected" THEN "rejected"
    ELSE IF a = "resolved" \/ b = "resolved" THEN "resolved"
    ELSE "pending"

PromiseAllSettled(a, b) ==
    IF a \in {"resolved", "rejected"} /\ b \in {"resolved", "rejected"}
    THEN "resolved"
    ELSE "pending"

PromiseAll(a, b) ==
    IF a = "rejected" \/ b = "rejected" THEN "rejected"
    ELSE IF a = "resolved" /\ b = "resolved" THEN "resolved"
    ELSE "pending"

\* waitForHydration, synchronous part: the promise returned and whether
\* store.subscribe was called.
waitForHydrationAlwaysSubscribes(hydrated) ==
    [promise |-> IF hydrated THEN "resolved" ELSE "pending", subscribe |-> TRUE]

waitForHydration(hydrated) ==
    IF hydrated
    THEN [promise |-> "resolved", subscribe |-> FALSE]
    ELSE [promise |-> "pending", subscribe |-> TRUE]

\* The callback waitForHydration subscribes: given the flag it reads, whether
\* it unsubscribes and whether it resolves the promise.
hydrationSubscriberKeepsSubscription(hydrated) ==
    [unsubscribe |-> FALSE, resolve |-> hydrated]

hydrationSubscriberResolvesOnAnyChange(hydrated) ==
    [unsubscribe |-> TRUE, resolve |-> TRUE]

hydrationSubscriber(hydrated) ==
    IF ~hydrated
    THEN [unsubscribe |-> FALSE, resolve |-> FALSE]
    ELSE [unsubscribe |-> TRUE, resolve |-> TRUE]

\* handleLaunchLogin / handleLaunchChannel: the next this.state and whether
\* props.initializeModules is called.
handleLaunchLoginToggles(st, initializeModules) ==
    [state |-> [st EXCEPT !.launchLogin = ~st.launchLogin], init |-> initializeModules]

handleLaunchLogin(st, initializeModules) ==
    [state |-> [st EXCEPT !.launchLogin = TRUE], init |-> initializeModules]

handleLaunchChannelAlwaysInitializes(st, initializeModules) ==
    [state |-> [st EXCEPT !.launchChannel = TRUE], init |-> TRUE]

handleLaunchChannel(st, initializeModules) ==
    [state |-> [st EXCEPT !.launchChannel = TRUE], init |-> initializeModules]

\* render: which screen is returned for this.state.
render(st) ==
    IF st.launchLogin THEN "SelectServer"
    ELSE IF st.launchChannel THEN "Channel"
    ELSE "Loading"

\* autoUpdateTimezone
autoUpdateTimezone(enableTimezone) ==
    <<Call("autoUpdateTimezone", Null)>>
    \o (IF enableTimezone THEN <<Call("actions.autoUpdateTimezone", Null)>> ELSE <<>>)

\* setDeviceToken
setDeviceToken(hasDeviceToken) ==
    <<Call("setDeviceToken", Null)>>
    \o (IF hasDeviceToken THEN <<Call("actions.setDeviceToken", Null)>> ELSE <<>>)

\* setStartupThemes: sameToolbar is app.toolbarBackground === theme.sidebarHeaderBg
setStartupThemes(sameToolbar) ==
    <<Call("setStartupThemes", Null)>>
    \o (IF sameToolbar THEN <<>> ELSE <<Call("app.setStartupThemes", Null)>>)

\* handleNotification: n is PushNotifications.getNotification(), r is
\* app.replyNotificationData, throws says whether onPushNotificationReply
\* throws. The async function runs synchronously to its end (it has no await);
\* a throw inside rejects the promise it returns and skips what follows.
handleNotificationNoCompletedCheck(n, r, throws) ==
    LET notificationData == IF n # Null THEN n ELSE r
        args == [data |-> notificationData.data, text |-> notificationData.text,
                 badge |-> notificationData.badge,
                 completed |-> notificationData.completed]
    IN  IF n # Null \/ r # Null
        THEN [log |-> <<Call("handleNotification", Null),
                        Call("onPushNotificationReply", args)>>
                      \o (IF throws THEN <<>>
                          ELSE <<Call("PushNotifications.resetNotification", Null)>>),
              reset |-> ~throws,
              rejected |-> throws]
        ELSE [log |-> <<Call("handleNotification", Null)>>,
              reset |-> FALSE, rejected |-> FALSE]

handleNotificationCachedWhenIncomplete(n, r, throws) ==
    LET notificationData == IF n # Null /\ n.completed THEN n
                            ELSE IF r # Null THEN r ELSE n
        args == [data |-> notificationData.data, text |-> notificationData.text,
                 badge |-> notificationData.badge,
                 completed |-> notificationData.completed]
        threw == notificationData.completed /\ throws
    IN  [log |-> <<Call("handleNotification", Null)>>
                 \o (IF notificationData.completed
                     THEN <<Call("onPushNotificationReply", args)>> ELSE <<>>)
                 \o (IF threw THEN <<>>
                     ELSE <<Call("PushNotifications.resetNotification", Null)>>),
         reset |-> ~threw,
         rejected |-> threw]

handleNotification(n, r, throws) ==
    LET notificationData == IF n # Null THEN n ELSE r
        args == [data |-> notificationData.data, text |-> notificationData.text,
                 badge |-> notificationData.badge,
                 completed |-> notificationData.completed]
        threw == notificationData.completed /\ throws
    IN  IF n # Null \/ r # Null
        THEN [log |-> <<Call("handleNotification", Null)>>
                      \o (IF notificationData.completed
                          THEN <<Call("onPushNotificationReply", args)>> ELSE <<>>)
                      \o (IF threw THEN <<>>
                          ELSE <<Call("PushNotifications.resetNotification", Null)>>),
              reset |-> ~threw,
              rejected |-> threw]
        ELSE [log |-> <<Call("handleNotification", Null)>>,
              reset |-> FALSE, rejected |-> FALSE]

\* loadSystemEmojis
loadSystemEmojis ==
    <<Call("loadSystemEmojis", Null), Call("setSystemEmojis", Null)>>

\* handleHydrationComplete: the five steps, in the order of the calls.
\* (this.unsubscribeFromStore is only ever assigned null, so its branch
\* makes no call.)
handleHydrationCompleteEmojisFirst(enableTimezone, hasDeviceToken, sameToolbar, n, r, throws) ==
    loadSystemEmojis
    \o autoUpdateTimezone(enableTimezone)
    \o setDeviceToken(hasDeviceToken)
    \o setStartupThemes(sameToolbar)
    \o handleNotification(n, r, throws).log

handleHydrationCompleteStopsOnThrow(enableTimezone, hasDeviceToken, sameToolbar, n, r, throws) ==
    autoUpdateTimezone(enableTimezone)
    \o setDeviceToken(hasDeviceToken)
    \o setStartupThemes(sameToolbar)
    \o handleNotification(n, r, throws).log
    \o (IF handleNotification(n, r, throws).rejected THEN <<>> ELSE loadSystemEmojis)

handleHydrationComplete(enableTimezone, hasDeviceToken, sameToolbar, n, r, throws) ==
    autoUpdateTimezone(enableTimezone)
    \o setDeviceToken(hasDeviceToken)
    \o setStartupThemes(sameToolbar)
    \o handleNotification(n, r, throws).log
    \o loadSystemEmojis

\* listenForHydration: configured is app.isNotificationsConfigured, hydrated
\* the flag it reads from the store; p are the props and app fields the steps
\* read. It configures the push notifications when they are not configured,
\* and on a hydrated store runs handleHydrationComplete.
listenForHydration(configured, hydrated, p, n, r, throws) ==
    <<Call("listenForHydration", Null)>>
    \o (IF ~configured THEN <<Call("configurePushNotifications", Null)>> ELSE <<>>)
    \o (IF hydrated
        THEN handleHydrationComplete(p.enableTimezone, p.hasDeviceToken,
                                     p.sameToolbar, n, r, throws)
        ELSE <<>>)

\* launchForAndroid
launchForAndroid ==
    <<Call("launchForAndroid", Null), Call("app.launchApp", Null)>>

\* launchForiOS: cs is AppState.currentState
launchForiOSAlwaysLaunches(cs) ==
    <<Call("launchForiOS", Null)>>
    \o (IF cs # "active"
        THEN <<Call("app.setShouldRelaunchWhenActive", Null), Call("app.launchApp", Null)>>
        ELSE <<Call("app.launchApp", Null)>>)

launchForiOS(cs) ==
    <<Call("launchForiOS", Null)>>
    \o (IF cs # "active"
        THEN <<Call("app.setShouldRelaunchWhenActive", Null)>>
        ELSE <<Call("app.launchApp", Null)>>)

\* The platform branch of launchWhenReady.
launchBothPlatforms(os, cs) ==
    IF os = "android" THEN launchForAndroid \o launchForiOS(cs) ELSE launchForiOS(cs)

launch(os, cs) ==
    IF os = "android" THEN launchForAndroid ELSE launchForiOS(cs)

\* ---------------------------------------------------------------- constructor
Init ==
    /\ lifecycle = "constructed"
    /\ state = [launchLogin |-> FALSE, launchChannel |-> FALSE]
    /\ unsubscribeFromStore = FALSE
    /\ listeners = [e \in LaunchEvents |-> 0]
    /\ hydrationComplete \in BOOLEAN
    /\ storeSubscriptions = 0
    /\ credentials = "none"
    /\ hydration = "none"
    /\ pc = "idle"
    /\ platform \in Platforms
    /\ currentState \in AppStates
    /\ notification \in ColdStartRecords \cup {Null}
    /\ replyNotificationData \in CachedRecords \cup {Null}
    /\ shouldRelaunchWhenActive = FALSE
    /\ initializeModulesCalls = 0
    /\ firstLaunch = "none"
    /\ storeChanges = 0
    /\ resolverCalls = 0
    /\ lateEmits = FALSE
    /\ log = <<>>

\* ---------------------------------------------------------------- operations
\* launchWhenReady up to its await, run synchronously by its caller: it calls
\* app.loadAppCredentials and this.waitForHydration (whose result is w). What
\* follows the await runs later, as a microtask, even when both promises are
\* already resolved.
launchWhenReadyNoAwait(w) ==
    <<Call("launchWhenReady", Null),
      Call("app.loadAppCredentials", Null),
      Call("waitForHydration", Null)>>
    \o (IF w.subscribe THEN <<Call("store.subscribe", Null)>> ELSE <<>>)
    \o (IF w.promise = "resolved"
        THEN loadSystemEmojis \o launchForAndroid
        ELSE <<>>)

launchWhenReadyUntilAwait(w) ==
    <<Call("launchWhenReady", Null),
      Call("app.loadAppCredentials", Null),
      Call("waitForHydration", Null)>>
    \o (IF w.subscribe THEN <<Call("store.subscribe", Null)>> ELSE <<>>)

\* componentDidMount: sets the user agent, starts launchWhenReady (which runs
\* synchronously up to its await; the credentials may be loaded already),
\* then registers the two listeners.
componentDidMount ==
    /\ lifecycle = "constructed"
    /\ LET w == waitForHydration(hydrationComplete)
       IN  /\ hydration' = w.promise
           /\ storeSubscriptions' = storeSubscriptions + (IF w.subscribe THEN 1 ELSE 0)
           /\ log' = log
                \o <<Call("Client4.setUserAgent", Null)>>
                \o launchWhenReadyUntilAwait(w)
                \o <<Call("EventEmitter.on", Null), Call("EventEmitter.on", Null)>>
    /\ credentials' \in {"pending", "resolved"}
    /\ pc' = "awaiting"
    /\ listeners' = [e \in LaunchEvents |-> listeners[e] + 1]
    /\ lifecycle' = "mounted"
    /\ UNCHANGED <<lateEmits, state, unsubscribeFromStore, hydrationComplete, platform,
                   currentState, notification, replyNotificationData,
                   shouldRelaunchWhenActive, initializeModulesCalls, firstLaunch,
                   storeChanges, resolverCalls>>

componentWillUnmountKeepsChannelListener ==
    /\ lifecycle = "mounted"
    /\ lifecycle' = "unmounted"
    /\ listeners' = [listeners EXCEPT ![LAUNCH_LOGIN] = 0]
    /\ UNCHANGED <<lateEmits, state, unsubscribeFromStore, hydrationComplete,
                   storeSubscriptions, credentials, hydration, pc, platform,
                   currentState, notification, replyNotificationData,
                   shouldRelaunchWhenActive, initializeModulesCalls, firstLaunch,
                   storeChanges, resolverCalls, log>>

\* componentWillUnmount: removes the two listeners, and nothing else.
componentWillUnmount ==
    /\ lifecycle = "mounted"
    /\ lifecycle' = "unmounted"
    /\ listeners' = [e \in LaunchEvents |->
                        IF listeners[e] > 0 THEN listeners[e] - 1 ELSE 0]
    /\ UNCHANGED <<lateEmits, state, unsubscribeFromStore, hydrationComplete,
                   storeSubscriptions, credentials, hydration, pc, platform,
                   currentState, notification, replyNotificationData,
                   shouldRelaunchWhenActive, initializeModulesCalls, firstLaunch,
                   storeChanges, resolverCalls, log>>

\* The promise of app.loadAppCredentials() resolves.
loadAppCredentialsResolves ==
    /\ credentials = "pending"
    /\ credentials' = "resolved"
    /\ UNCHANGED <<lateEmits, lifecycle, state, unsubscribeFromStore, listeners,
                   hydrationComplete, storeSubscriptions, hydration, pc,
                   platform, currentState, notification, replyNotificationData,
                   shouldRelaunchWhenActive, initializeModulesCalls, firstLaunch,
                   storeChanges, resolverCalls, log>>

\* The promise of app.loadAppCredentials() rejects.
loadAppCredentialsRejects ==
    /\ credentials = "pending"
    /\ credentials' = "rejected"
    /\ UNCHANGED <<lateEmits, lifecycle, state, unsubscribeFromStore, listeners,
                   hydrationComplete, storeSubscriptions, hydration, pc,
                   platform, currentState, notification, replyNotificationData,
                   shouldRelaunchWhenActive, initializeModulesCalls, firstLaunch,
                   storeChanges, resolverCalls, log>>

\* A store dispatch after mount (what the store did before is the initial
\* value of hydrationComplete): the state changes (hydrationComplete never
\* goes back to false) and every installed subscriber is called; the
\* subscriber of waitForHydration reads the new state. A dispatch that finds no
\* subscriber of the component calls nothing of it and is only counted.
storeChange(hydrated) ==
    /\ lifecycle # "constructed"
    /\ storeChanges < MaxStoreChanges
    /\ storeChanges' = storeChanges + 1
    /\ hydrationComplete' = (hydrationComplete \/ hydrated)
    /\ IF storeSubscriptions > 0
       THEN LET cb == hydrationSubscriber(hydrationComplete')
            IN  /\ storeSubscriptions' =
                      storeSubscriptions - (IF cb.unsubscribe THEN 1 ELSE 0)
                /\ hydration' = IF cb.resolve THEN "resolved" ELSE hydration
                /\ log' = log
                     \o <<Call("store.dispatch", Null)>>
                     \o (IF cb.unsubscribe THEN <<Call("unsubscribeFromStore", Null)>> ELSE <<>>)
                     \o (IF cb.resolve THEN <<Call("resolve", Null)>> ELSE <<>>)
       ELSE UNCHANGED <<storeSubscriptions, hydration, log>>
    /\ UNCHANGED <<lateEmits, lifecycle, state, unsubscribeFromStore, listeners,
                   credentials, pc, platform, currentState, notification,
                   replyNotificationData, shouldRelaunchWhenActive,
                   initializeModulesCalls, firstLaunch, resolverCalls>>

\* launchWhenReady after its await, when Promise.all has resolved:
\* handleHydrationComplete, then the platform's launch.
launchWhenReadyResumes ==
    /\ pc = "awaiting"
    /\ PromiseAll(credentials, hydration) = "resolved"
    /\ \E p \in PropsCases, throws \in BOOLEAN :
          LET h == handleNotification(notification, replyNotificationData, throws)
              l == launch(platform, currentState)
          IN  /\ log' = log
                   \o handleHydrationComplete(p.enableTimezone, p.hasDeviceToken,
                                              p.sameToolbar, notification,
                                              replyNotificationData, throws)
                   \o (IF h.rejected THEN <<Call("handleNotification.rejected", Null)>> ELSE <<>>)
                   \o l
              /\ notification' = IF h.reset THEN Null ELSE notification
              /\ shouldRelaunchWhenActive' =
                    (shouldRelaunchWhenActive
                     \/ Count(l, "app.setShouldRelaunchWhenActive") > 0)
    /\ unsubscribeFromStore' = FALSE
    /\ pc' = "done"
    /\ UNCHANGED <<lateEmits, lifecycle, state, listeners, hydrationComplete,
                   storeSubscriptions, credentials, hydration, platform,
                   currentState, replyNotificationData, initializeModulesCalls,
                   firstLaunch, storeChanges, resolverCalls>>

\* launchWhenReady after its await, when Promise.all has rejected: the async
\* function ends with the rejection, which nothing handles.
launchWhenReadyRejects ==
    /\ pc = "awaiting"
    /\ PromiseAll(credentials, hydration) = "rejected"
    /\ pc' = "rejected"
    /\ UNCHANGED <<lateEmits, lifecycle, state, unsubscribeFromStore, listeners,
                   hydrationComplete, storeSubscriptions, credentials,
                   hydration, platform, currentState, notification,
                   replyNotificationData, shouldRelaunchWhenActive,
                   initializeModulesCalls, firstLaunch, storeChanges,
                   resolverCalls, log>>

\* EventEmitter.emit(LAUNCH_LOGIN, initializeModules): calls handleLaunchLogin
\* if it is registered.
emitLaunchLogin(initializeModules) ==
    /\ initializeModules => initializeModulesCalls < MaxInitializeModulesCalls
    /\ LET handled == listeners[LAUNCH_LOGIN] > 0
           r == handleLaunchLogin(state, initializeModules)
       IN  /\ firstLaunch' = IF handled /\ firstLaunch = "none"
                             THEN LAUNCH_LOGIN ELSE firstLaunch
           /\ state' = IF handled THEN r.state ELSE state
           /\ initializeModulesCalls' =
                 initializeModulesCalls + (IF handled /\ r.init THEN 1 ELSE 0)
    /\ lateEmits' = (lateEmits \/ lifecycle = "unmounted")
    /\ UNCHANGED <<lifecycle, unsubscribeFromStore, listeners,
                   hydrationComplete, storeSubscriptions, credentials,
                   hydration, pc, platform, currentState, notification,
                   replyNotificationData, shouldRelaunchWhenActive,
                   storeChanges, resolverCalls, log>>

\* EventEmitter.emit(LAUNCH_CHANNEL, initializeModules): calls
\* handleLaunchChannel if it is registered.
emitLaunchChannel(initializeModules) ==
    /\ initializeModules => initializeModulesCalls < MaxInitializeModulesCalls
    /\ LET handled == listeners[LAUNCH_CHANNEL] > 0
           r == handleLaunchChannel(state, initializeModules)
       IN  /\ firstLaunch' = IF handled /\ firstLaunch = "none"
                             THEN LAUNCH_CHANNEL ELSE firstLaunch
           /\ state' = IF handled THEN r.state ELSE state
           /\ initializeModulesCalls' =
                 initializeModulesCalls + (IF handled /\ r.init THEN 1 ELSE 0)
    /\ lateEmits' = (lateEmits \/ lifecycle = "unmounted")
    /\ UNCHANGED <<lifecycle, unsubscribeFromStore, listeners,
                   hydrationComplete, storeSubscriptions, credentials,
                   hydration, pc, platform, currentState, notification,
                   replyNotificationData, shouldRelaunchWhenActive,
                   storeChanges, resolverCalls, log>>

\* The process moves between foreground and background.
appStateChange(s) ==
    /\ s # currentState
    /\ currentState' = s
    /\ UNCHANGED <<lateEmits, lifecycle, state, unsubscribeFromStore, listeners,
                   hydrationComplete, storeSubscriptions, credentials,
                   hydration, pc, platform, notification,
                   replyNotificationData, shouldRelaunchWhenActive,
                   initializeModulesCalls, firstLaunch, storeChanges,
                   resolverCalls, log>>

Next ==
    \/ componentDidMount
    \/ componentWillUnmount
    \/ loadAppCredentialsResolves
    \/ loadAppCredentialsRejects
    \/ \E hydrated \in BOOLEAN : storeChange(hydrated)
    \/ launchWhenReadyResumes
    \/ launchWhenReadyRejects
    \/ \E initializeModules \in BOOLEAN : emitLaunchLogin(initializeModules)
    \/ \E initializeModules \in BOOLEAN : emitLaunchChannel(initializeModules)
    \/ \E s \in AppStates : appStateChange(s)

Spec == Init /\ [][Next]_vars

\* The continuation of an async function whose awaited promise has settled
\* is a queued microtask: the event loop runs it.
FairSpec == Spec /\ WF_vars(launchWhenReadyResumes)

\* ---------------------------------------------------------------- the resolver alone
\* handleNotification called directly, any number of times, on the records the
\* notification layer and app hold, with a reply dispatcher that returns.
resolverCall ==
    /\ resolverCalls < MaxResolverCalls
    /\ resolverCalls' = resolverCalls + 1
    /\ LET h == handleNotification(notification, replyNotificationData, FALSE)
       IN  /\ log' = log \o h.log
           /\ notification' = IF h.reset THEN Null ELSE notification
    /\ UNCHANGED <<lateEmits, lifecycle, state, unsubscribeFromStore, listeners,
                   hydrationComplete, storeSubscriptions, credentials,
                   hydration, pc, platform, currentState,
                   replyNotificationData, shouldRelaunchWhenActive,
                   initializeModulesCalls, firstLaunch, storeChanges>>

NextResolver == resolverCall

SpecResolver == Init /\ [][NextResolver]_vars

\* ---------------------------------------------------------------- direct calls on an instance
\* listenForHydration is a method of the instance that no code of the component
\* calls and that is subscribed to nothing; it runs only when a holder of the
\* instance calls it. Spec therefore has no step for it; SpecInstance is the
\* component with such a caller added, at any moment of its life.
listenForHydrationCall ==
    /\ resolverCalls < MaxResolverCalls
    /\ resolverCalls' = resolverCalls + 1
    /\ \E configured \in BOOLEAN, p \in PropsCases, throws \in BOOLEAN :
          LET h == handleNotification(notification, replyNotificationData, throws)
          IN  /\ log' = log
                   \o listenForHydration(configured, hydrationComplete, p,
                                         notification, replyNotificationData, throws)
                   \o (IF hydrationComplete /\ h.rejected
                       THEN <<Call("handleNotification.rejected", Null)>> ELSE <<>>)
              /\ notification' = IF hydrationComplete /\ h.reset
                                 THEN Null ELSE notification
    /\ unsubscribeFromStore' = (unsubscribeFromStore /\ ~hydrationComplete)
    /\ UNCHANGED <<lateEmits, lifecycle, state, listeners, hydrationComplete,
                   storeSubscriptions, credentials, hydration, pc, platform,
                   currentState, replyNotificationData, shouldRelaunchWhenActive,
                   initializeModulesCalls, firstLaunch, storeChanges>>

\* A store dispatch before mount: the component has no subscriber yet, so
\* nothing of it runs; a later direct call of listenForHydration reads the
\* new flag. (In Spec nothing reads the store before mount, and what the store
\* did before is the initial value of hydrationComplete.)
storeChangeBeforeMount(hydrated) ==
    /\ lifecycle = "constructed"
    /\ storeChanges < MaxStoreChanges
    /\ storeChanges' = storeChanges + 1
    /\ hydrationComplete' = (hydrationComplete \/ hydrated)
    /\ UNCHANGED <<lateEmits, lifecycle, state, unsubscribeFromStore, listeners,
                   storeSubscriptions, credentials, hydration, pc, platform,
                   currentState, notification, replyNotificationData,
                   shouldRelaunchWhenActive, initializeModulesCalls, firstLaunch,
                   resolverCalls, log>>

NextInstance ==
    \/ Next
    \/ listenForHydrationCall
    \/ \E hydrated \in BOOLEAN : storeChangeBeforeMount(hydrated)

SpecInstance == Init /\ [][NextInstance]_vars

\* ---------------------------------------------------------------- properties
\* The five steps of the post-hydration sequence, by method name.
StepOps ==
    {"autoUpdateTimezone", "setDeviceToken", "setStartupThemes",
     "handleNotification", "loadSystemEmojis"}

\* The calls the five steps make on the collaborators.
StepEffectOps ==
    {"actions.autoUpdateTimezone", "actions.setDeviceToken",
     "app.setStartupThemes", "onPushNotificationReply",
     "PushNotifications.resetNotification", "setSystemEmojis"}

\* The launch decision.
LaunchOps ==
    {"launchForAndroid", "launchForiOS", "app.launchApp",
     "app.setShouldRelaunchWhenActive"}

OrchestratorOps == StepOps \cup StepEffectOps \cup LaunchOps

FiveSteps ==
    <<"autoUpdateTimezone", "setDeviceToken", "setStartupThemes",
      "handleNotification", "loadSystemEmojis">>

\* The step in which launchWhenReady runs on after its await.
ResumeStep == pc = "awaiting" /\ pc' = "done"

\* The record the resolver finds: the notification layer's, else the cached one.
Found == IF notification # Null THEN notification ELSE replyNotificationData

\* C1: no step of the post-hydration sequence, no call it makes and no launch
\* decision is in the log unless the credential load and the hydration wait
\* have both resolved.
C1_OnlyAfterBothPrerequisites ==
    Filter(log, OrchestratorOps) # <<>>
        => credentials = "resolved" /\ hydration = "resolved"

\* C1 witness: the sequence and the launch have run in a run where the store
\* was not hydrated at mount (the waiter subscribed and was resolved later).
C1_Witness ==
    /\ pc = "done"
    /\ Count(log, "store.subscribe") = 1
    /\ Count(log, "app.launchApp") + Count(log, "app.setShouldRelaunchWhenActive") = 1

\* C2: the steps that have run are exactly the five, once each, in the order
\* timezone, device token, theme, notification reply, emoji table, whatever
\* store dispatches happen afterwards.
C2_FiveStepsInOrderOnce ==
    LET steps == Ops(Filter(log, StepOps))
    IN  /\ steps = <<>> \/ steps = FiveSteps
        /\ pc = "done" => steps = FiveSteps

\* C2 witness: the sequence has run, and the store has dispatched again
\* after hydration was complete (a dispatch that found the waiter gone).
C2_Witness ==
    /\ pc = "done"
    /\ hydrationComplete
    /\ Count(log, "resolve") = 1
    /\ storeChanges > Count(log, "store.dispatch")

\* C3 as claimed: the screen rendered is the one of the first launch event
\* received.
C3_FirstEventWins ==
    /\ firstLaunch = LAUNCH_LOGIN => render(state) = "SelectServer"
    /\ firstLaunch = LAUNCH_CHANNEL => render(state) = "Channel"

\* C4: when the resolver finds a record whose completed is false, it calls
\* no reply dispatcher and it calls resetNotification, which clears the
\* record the notification layer holds.
C4_IncompleteDiscardedAndCleared ==
    [][(ResumeStep /\ Found # Null /\ ~Found.completed) =>
          /\ Count(log', "onPushNotificationReply") = 0
          /\ Count(log', "PushNotifications.resetNotification") = 1
          /\ notification' = Null]_vars

\* C4 witness: the sequence has run, the record was cleared and no reply was
\* dispatched.
C4_Witness ==
    /\ pc = "done"
    /\ Count(log, "PushNotifications.resetNotification") = 1
    /\ Count(log, "onPushNotificationReply") = 0

\* C5 as claimed: when the resolver finds a record whose completed is true,
\* it calls the reply dispatcher exactly once, with that record's data, text,
\* badge and completed, and it clears the record exactly once: the source
\* that held the record holds none afterwards.
C5_CompletedDispatchedOnceAndCleared ==
    [][(ResumeStep /\ Found # Null /\ Found.completed) =>
          /\ Filter(log', {"onPushNotificationReply"})
                = <<Call("onPushNotificationReply",
                         [data |-> Found.data, text |-> Found.text,
                          badge |-> Found.badge, completed |-> TRUE])>>
          /\ Count(log', "PushNotifications.resetNotification") = 1
          /\ IF notification # Null
             THEN notification' = Null
             ELSE replyNotificationData' = Null]_vars

\* C6: on the platform that is not android the launch decision is exclusive:
\* not active at decision time, the deferred relaunch is recorded and
\* app.launchApp is not called; active, app.launchApp is called and no
\* deferred relaunch is recorded.
C6_LaunchDecisionExclusive ==
    [][(ResumeStep /\ platform # "android") =>
          IF currentState # "active"
          THEN /\ Count(log', "app.setShouldRelaunchWhenActive") = 1
               /\ Count(log', "app.launchApp") = 0
               /\ shouldRelaunchWhenActive'
          ELSE /\ Count(log', "app.launchApp") = 1
               /\ Count(log', "app.setShouldRelaunchWhenActive") = 0
               /\ ~shouldRelaunchWhenActive']_vars

\* C6 witness: the decision was taken in the background on ios.
C6_Witness ==
    /\ pc = "done"
    /\ platform = "ios"
    /\ shouldRelaunchWhenActive
    /\ Count(log, "app.launchApp") = 0

\* C7: when the store is already hydrated as waitForHydration is called, the
\* promise is resolved and no store subscription is installed.
C7_HydratedNoSubscription ==
    [][(lifecycle = "constructed" /\ lifecycle' = "mounted" /\ hydrationComplete) =>
          /\ hydration' = "resolved"
          /\ storeSubscriptions' = storeSubscriptions
          /\ Count(log', "store.subscribe") = 0]_vars

\* C7 witness: waitForHydration was called on a hydrated store.
C7_Witness ==
    /\ lifecycle = "mounted"
    /\ Count(log, "waitForHydration") = 1
    /\ Count(log, "store.subscribe") = 0
    /\ hydration = "resolved"

\* C8: on a store that is not hydrated waitForHydration installs exactly one
\* subscription; a dispatch that leaves hydrationComplete false keeps it
\* installed and the promise pending; the first dispatch that shows
\* hydrationComplete true removes it and resolves; and no post-hydration step
\* runs while it is installed.
C8_OneSubscriptionRemovedOnHydration ==
    /\ [][(lifecycle = "constructed" /\ lifecycle' = "mounted" /\ ~hydrationComplete) =>
             /\ storeSubscriptions' = 1
             /\ hydration' = "pending"]_vars
    /\ [][(storeChanges' # storeChanges /\ hydration = "pending") =>
             IF hydrationComplete'
             THEN storeSubscriptions' = 0 /\ hydration' = "resolved"
             ELSE storeSubscriptions' = 1 /\ hydration' = "pending"]_vars
    /\ [](Filter(log, OrchestratorOps) # <<>> => storeSubscriptions = 0)
    /\ [](storeSubscriptions \in {0, 1})

\* C8 witness: subscribed, one dispatch that left the store unhydrated, one
\* that hydrated it, and the sequence has run.
C8_Witness ==
    /\ pc = "done"
    /\ storeSubscriptions = 0
    /\ \E i \in 1..Len(log) :
          /\ i + 5 <= Len(log)
          /\ log[i].op = "store.subscribe"
          /\ log[i + 3].op = "store.dispatch"
          /\ log[i + 4].op = "store.dispatch"
          /\ log[i + 5].op = "unsubscribeFromStore"

\* C9 as claimed: once the component is unmounted, no post-hydration step
\* and no launch decision is performed.
C9_NoOpAfterUnmount ==
    [][lifecycle = "unmounted" =>
          Filter(log', OrchestratorOps) = Filter(log, OrchestratorOps)]_vars

\* C10 as claimed: however often the resolver is called, a record is
\* dispatched to the reply dispatcher at most once.
C10_NoReplay ==
    LET d == Filter(log, {"onPushNotificationReply"})
    IN  \A i, j \in 1..Len(d) : i # j => d[i].arg # d[j].arg

\* C11: once the component renders something else than the loading view it
\* never renders the loading view again, whatever event, store dispatch or
\* orchestrator step follows; and as long as no handler has received a launch
\* event it renders the loading view.
C11_NeverBackToLoading ==
    /\ [][render(state) # "Loading" => render(state') # "Loading"]_vars
    /\ [](firstLaunch = "none" <=> render(state) = "Loading")

\* C11 witness: a screen is rendered after launch events of both kinds, a
\* store dispatch and the post-hydration sequence with its launch.
C11_Witness ==
    /\ lifecycle = "mounted"
    /\ render(state) # "Loading"
    /\ state.launchLogin /\ state.launchChannel
    /\ pc = "done"
    /\ log[Len(log)].op = "app.launchApp"
    /\ storeChanges > 0

\* C12: as long as the store has not reported hydrationComplete = true, the
\* promise of waitForHydration is not resolved and not rejected, no
\* post-hydration step and no launch decision has run, and launchWhenReady has
\* not ended, even with the credentials loaded and after store dispatches;
\* launchWhenReady ends in a rejection only if the credential load rejected.
C12_BlocksUntilHydrated ==
    /\ ~hydrationComplete =>
          /\ hydration \in {"none", "pending"}
          /\ Filter(log, OrchestratorOps) = <<>>
          /\ pc # "done"
    /\ hydration # "rejected"
    /\ pc = "rejected" => credentials = "rejected"

\* C12 witness: the credentials are loaded, the store has dispatched twice
\* to the subscribed waiter and is still not hydrated.
C12_Witness ==
    /\ ~hydrationComplete
    /\ credentials = "resolved"
    /\ pc = "awaiting"
    /\ storeSubscriptions = 1
    /\ Count(log, "store.dispatch") >= 2
    /\ log[Len(log)].op = "store.dispatch"

\* C13: once a prerequisite has rejected, no post-hydration step and no
\* launch decision has run or runs, launchWhenReady never completes, and
\* neither prerequisite is started again, whether or not the other one
\* resolves.
C13_RejectionStopsBootstrap ==
    /\ [](credentials = "rejected" \/ hydration = "rejected" =>
             /\ Filter(log, OrchestratorOps) = <<>>
             /\ pc \in {"awaiting", "rejected"}
             /\ Count(log, "app.loadAppCredentials") = 1
             /\ Count(log, "waitForHydration") = 1)
    /\ [][pc = "rejected" => pc' = "rejected" /\ credentials' = credentials]_vars

\* C13 witness: the credential load rejected, launchWhenReady ended with the
\* rejection, and the hydration wait has resolved through the subscription.
C13_Witness ==
    /\ credentials = "rejected"
    /\ pc = "rejected"
    /\ hydration = "resolved"
    /\ Count(log, "resolve") = 1

\* The launch decisions in a log.
LaunchDecisions(s) == Filter(s, {"app.launchApp", "app.setShouldRelaunchWhenActive"})

\* C14: once the credential load and the hydration wait have both resolved,
\* launchWhenReady eventually completes; when it has, exactly one launch
\* decision has been issued, it follows the emoji-table load, and the
\* orchestrator makes no call afterwards; before, no launch decision is issued.
C14_EventuallyOneLaunchDecision ==
    /\ (credentials = "resolved" /\ hydration = "resolved") ~> (pc = "done")
    /\ [](pc = "done" =>
             /\ Len(LaunchDecisions(log)) = 1
             /\ Ops(Filter(log, {"setSystemEmojis", "app.launchApp",
                                 "app.setShouldRelaunchWhenActive"}))
                   \in {<<"setSystemEmojis", "app.launchApp">>,
                        <<"setSystemEmojis", "app.setShouldRelaunchWhenActive">>})
    /\ [](pc # "done" => LaunchDecisions(log) = <<>>)
    /\ [][pc = "done" =>
             /\ pc' = "done"
             /\ Filter(log', OrchestratorOps) = Filter(log, OrchestratorOps)]_vars

\* C14 witness: the launch decision was issued on android, after a hydration
\* that came through the subscription, with a further store dispatch.
C14_Witness ==
    /\ pc = "done"
    /\ platform = "android"
    /\ Count(log, "resolve") = 1
    /\ storeChanges = Count(log, "store.dispatch") + 1
    /\ log[Len(log)].op = "app.launchApp"
    /\ Len(LaunchDecisions(log)) = 1

\* The reply dispatches in a log.
Replies(s) == Filter(s, {"onPushNotificationReply"})

\* C15: the resolver processes the record of the notification layer when
\* there is one, whatever app has cached; it processes the cached payload only
\* when the notification layer holds none; with no record in either source it
\* dispatches nothing and does not call resetNotification.
C15_SourcesInOrder ==
    [][ResumeStep =>
          /\ notification # Null =>
                /\ Replies(log') # <<>> <=> notification.completed
                /\ \A i \in 1..Len(Replies(log')) :
                      Replies(log')[i].arg.data = notification.data
          /\ (notification = Null /\ replyNotificationData # Null) =>
                /\ Replies(log') # <<>> <=> replyNotificationData.completed
                /\ \A i \in 1..Len(Replies(log')) :
                      Replies(log')[i].arg.data = replyNotificationData.data
          /\ (notification = Null /\ replyNotificationData = Null) =>
                /\ Replies(log') = <<>>
                /\ Count(log', "PushNotifications.resetNotification") = 0
                /\ notification' = notification]_vars

\* C15 witness: the notification layer held an incomplete record and app a
\* completed payload; the record was processed (cleared, no reply) and the
\* cached payload was not dispatched.
C15_Witness ==
    /\ pc = "done"
    /\ replyNotificationData # Null
    /\ replyNotificationData.completed
    /\ Replies(log) = <<>>
    /\ Count(log, "PushNotifications.resetNotification") = 1
    /\ notification = Null

\* C16 as claimed: the channel screen is rendered if CHANNEL is latched;
\* else the login screen if LOGIN is latched; else the loading composite.
C16_ChannelPriority ==
    /\ state.launchChannel => render(state) = "Channel"
    /\ (~state.launchChannel /\ state.launchLogin) => render(state) = "SelectServer"
    /\ (~state.launchChannel /\ ~state.launchLogin) => render(state) = "Loading"

\* C17: a launch-login (launch-channel) event that reaches its handler
\* leaves launchLogin (launchChannel) set, and props.initializeModules is
\* called once by it if its flag is true and not at all if its flag is false;
\* the other route flag is not touched.
C17_LatchAndOptionalInitialize ==
    [][\A flag \in BOOLEAN :
          /\ (emitLaunchLogin(flag) /\ listeners[LAUNCH_LOGIN] > 0) =>
                /\ state'.launchLogin
                /\ state'.launchChannel = state.launchChannel
                /\ initializeModulesCalls' =
                      initializeModulesCalls + (IF flag THEN 1 ELSE 0)
          /\ (emitLaunchChannel(flag) /\ listeners[LAUNCH_CHANNEL] > 0) =>
                /\ state'.launchChannel
                /\ state'.launchLogin = state.launchLogin
                /\ initializeModulesCalls' =
                      initializeModulesCalls + (IF flag THEN 1 ELSE 0)]_vars

\* C17 witness: both events were handled, one with a true flag and one
\* with a false flag: one call of the hook.
C17_Witness ==
    /\ state.launchLogin
    /\ state.launchChannel
    /\ initializeModulesCalls = 1
    /\ lifecycle = "mounted"
    /\ pc = "awaiting"

\* C18: each handler is registered once while the component is mounted and
\* not at all before or after; a launch event emitted after unmount changes
\* neither this.state nor the number of calls of the initialization hook.
C18_ListenersFollowMount ==
    /\ [](\A e \in LaunchEvents :
             listeners[e] = IF lifecycle = "mounted" THEN 1 ELSE 0)
    /\ [][lifecycle = "unmounted" =>
             /\ state' = state
             /\ initializeModulesCalls' = initializeModulesCalls
             /\ firstLaunch' = firstLaunch]_vars

\* C18 witness: a launch event was emitted after unmount, and the component
\* that had received none before still has no route latched.
C18_Witness ==
    /\ lifecycle = "unmounted"
    /\ lateEmits
    /\ firstLaunch = "none"
    /\ state = [launchLogin |-> FALSE, launchChannel |-> FALSE]
    /\ initializeModulesCalls = 0

\* C19: every call of the launch decision comes, in the order of the calls,
\* after the two EventEmitter.on registrations of componentDidMount, also when
\* the store is hydrated and the credentials are loaded at mount.
C19_LaunchAfterListeners ==
    /\ LET f == Ops(Filter(log, LaunchOps \cup {"EventEmitter.on"}))
       IN  \A i \in 1..Len(f) :
              f[i] \in LaunchOps =>
                 i > 2 /\ f[1] = "EventEmitter.on" /\ f[2] = "EventEmitter.on"
    /\ pc = "done" => lifecycle # "constructed"

\* C19 witness: the launch decision was issued while mounted with a store
\* hydrated at mount and no store dispatch at all.
C19_Witness ==
    /\ pc = "done"
    /\ lifecycle = "mounted"
    /\ storeChanges = 0
    /\ Count(log, "store.subscribe") = 0
    /\ log[Len(log)].op \in {"app.launchApp", "app.setShouldRelaunchWhenActive"}
    /\ listeners[LAUNCH_LOGIN] = 1 /\ listeners[LAUNCH_CHANNEL] = 1

\* C20: when the reply dispatcher throws in step 4, the promise of
\* handleNotification is rejected and nothing more happens to the bootstrap:
\* the emoji table is loaded after the failed dispatch, and the launch
\* decision is issued after that.
C20_ReplyFailureDoesNotStopBootstrap ==
    Count(log, "handleNotification.rejected") > 0 =>
        /\ pc = "done"
        /\ Ops(Filter(log, {"onPushNotificationReply", "setSystemEmojis",
                            "app.launchApp", "app.setShouldRelaunchWhenActive"}))
              \in {<<"onPushNotificationReply", "setSystemEmojis", "app.launchApp">>,
                   <<"onPushNotificationReply", "setSystemEmojis",
                     "app.setShouldRelaunchWhenActive">>}

\* C20 witness: the dispatcher threw on the cached payload, the record was
\* not cleared by resetNotification, and the bootstrap has completed.
C20_Witness ==
    /\ pc = "done"
    /\ Count(log, "handleNotification.rejected") = 1
    /\ Count(log, "PushNotifications.resetNotification") = 0
    /\ \E i \in 1..Len(log) :
          log[i].op = "onPushNotificationReply" /\ log[i].arg.data = "D2"

====
